---- MODULE Spec2Model ----
(***************************************************************************)
(* Register allocation over expression DAGs (src/app.py, class             *)
(* RegisterAllocator) and over generic DAGs by live ranges                 *)
(* (src/dag_register_allocation.py, class DAGRegisterAllocation).          *)
(*                                                                         *)
(* Strings are sequences of one-character strings.  None is modelled by    *)
(* -1 for node references and for labels.                                  *)
(***************************************************************************)
EXTENDS Integers, Sequences, FiniteSets, TLC

\* ------------------------------------------------------------------------
\* Bounds of the model
\* ------------------------------------------------------------------------

\* longest raw input string (every string over Alphabet up to this length)
MaxStrLen == 4

\* most variable leaves of a generated well-formed expression
MaxLeaves == 4

\* most nodes of a generic DAG
MaxDagNodes == 3

\* most rearrange_dag calls after one parse_expression (every call creates
\* nodes and temporaries, so the counters grow without bound otherwise)
MaxRearrange == 2

\* ------------------------------------------------------------------------
\* Characters
\* ------------------------------------------------------------------------

NoneRef == 0 - 1

AddOps == {"+", "-"}

MulOps == {"*", "/"}

Operators == AddOps \cup MulOps

\* the Unicode asterisk operator U+2217 that parse_expression replaces
UnicodeTimes == "U+2217"

\* characters for which str.isalnum() is true or that are '_'
IsAlnumOrUnderscore(c) == c \in {"a", "b", "c", "d", "e", "f", "g", "h", "_"}

\* characters of the raw input strings
Alphabet == {"a", "+", "-", "*", "/", "(", ")"}

\* ------------------------------------------------------------------------
\* The inputs: every raw string up to MaxStrLen, and every expression tree
\* of up to MaxLeaves leaves printed with the fewest parentheses, its leaves
\* named a, b, c, ... from left to right; each printed tree of at most
\* MaxStrLen characters also with blanks around its operators, and with the
\* Unicode glyph for every '*'.
\* ------------------------------------------------------------------------

RECURSIVE StringsOfLen(_)
StringsOfLen(n) ==
    IF n = 0 THEN {<<>>}
    ELSE {Append(s, c) : s \in StringsOfLen(n - 1), c \in Alphabet}

RawStrings == UNION {StringsOfLen(n) : n \in 0..MaxStrLen}

Prec(op) == IF op \in AddOps THEN 1 ELSE 2

Paren(s) == <<"(">> \o s \o <<")">>

\* printed trees with n leaves (each leaf printed "a"), with the precedence
\* of the top operator (3 for a leaf)
RECURSIVE PrintedTrees(_)
PrintedTrees(n) ==
    IF n = 1 THEN {[s |-> <<"a">>, p |-> 3]}
    ELSE UNION {
        {[s |-> (IF l.p < Prec(op) THEN Paren(l.s) ELSE l.s) \o <<op>> \o
                (IF r.p <= Prec(op) THEN Paren(r.s) ELSE r.s),
          p |-> Prec(op)] :
            l \in PrintedTrees(k), r \in PrintedTrees(n - k), op \in Operators}
        : k \in 1..(n - 1)}

LeafNames == <<"a", "b", "c", "d", "e", "f", "g", "h">>

\* rename the k-th leaf to the k-th letter
RECURSIVE NameLeaves(_, _)
NameLeaves(s, k) ==
    IF s = <<>> THEN <<>>
    ELSE IF Head(s) = "a"
         THEN <<LeafNames[k]>> \o NameLeaves(Tail(s), k + 1)
         ELSE <<Head(s)>> \o NameLeaves(Tail(s), k)

TreeStrings == {NameLeaves(t.s, 1) : t \in UNION {PrintedTrees(n) : n \in 1..MaxLeaves}}

\* s with a blank on each side of every operator
RECURSIVE Spaced(_)
Spaced(s) ==
    IF s = <<>> THEN <<>>
    ELSE IF Head(s) \in Operators THEN <<" ", Head(s), " ">> \o Spaced(Tail(s))
    ELSE <<Head(s)>> \o Spaced(Tail(s))

\* s with the Unicode glyph in place of every '*'
Glyphed(s) == [i \in 1..Len(s) |-> IF s[i] = "*" THEN UnicodeTimes ELSE s[i]]

ShortTreeStrings == {t \in TreeStrings : Len(t) <= MaxStrLen}

\* "a+(b+c)" and "(a+b)+c": the second is not a printed tree (its
\* parentheses are not needed)
ExampleRight == <<"a", "+", "(", "b", "+", "c", ")">>

ExampleLeft == <<"(", "a", "+", "b", ")", "+", "c">>

\* "a-(b+(c+d))-e": five leaves, the fewest with which an operand is loaded
\* after a subtree that was evaluated right operand first
ExampleReuse ==
    <<"a", "-", "(", "b", "+", "(", "c", "+", "d", ")", ")", "-", "e">>

Inputs ==
    RawStrings \cup TreeStrings \cup {Spaced(t) : t \in ShortTreeStrings}
               \cup {Glyphed(t) : t \in ShortTreeStrings}
               \cup {ExampleRight, ExampleLeft, ExampleReuse}

\* ------------------------------------------------------------------------
\* State
\* ------------------------------------------------------------------------

VARIABLES
    nodes,               \* RegisterAllocator.nodes: id -> DAGNode
    root,                \* RegisterAllocator.root (NoneRef for None)
    next_id,             \* RegisterAllocator.next_id
    three_address_code,  \* RegisterAllocator.three_address_code
    temp_counter,        \* RegisterAllocator.temp_counter
    expression,          \* the expression of the request (process(): data['expression'])
    steps,               \* the list returned by the last get_allocation_steps
    raised,              \* whether the last call raised an exception
    op,                  \* the last public method called
    rearrangements       \* rearrange_dag calls since the last parse_expression

exprVars == <<nodes, root, next_id, three_address_code, temp_counter,
              expression, steps, raised, op, rearrangements>>

\* ------------------------------------------------------------------------
\* DAGNode and node creation
\* ------------------------------------------------------------------------

\* DAGNode.__init__
DAGNode(id, value, node_type) ==
    [id |-> id, value |-> value, node_type |-> node_type,
     children |-> <<>>, label |-> NoneRef]

\* a create_node that gives the node the value of next_id after the
\* increment as its id, and files it under the value before
create_nodeIdAfterIncrement(ns, nid, value, node_type) ==
    [i \in 0..nid |-> IF i = nid THEN DAGNode(nid + 1, value, node_type) ELSE ns[i]]

\* RegisterAllocator.create_node with get_next_id: the node map after the
\* creation; the new node's id is the old next_id
create_node(ns, nid, value, node_type) ==
    [i \in 0..nid |-> IF i = nid THEN DAGNode(nid, value, node_type) ELSE ns[i]]

\* DAGNode.add_child
add_child(ns, parent, child) ==
    [ns EXCEPT ![parent].children = Append(@, child)]

\* ------------------------------------------------------------------------
\* parse_expression
\* ------------------------------------------------------------------------

\* re.sub(r'\s+', '', expression) and replace('*' glyph, '*')
RECURSIVE Normalize(_)
Normalize(s) ==
    IF s = <<>> THEN <<>>
    ELSE IF Head(s) = " " THEN Normalize(Tail(s))
    ELSE IF Head(s) = UnicodeTimes THEN <<"*">> \o Normalize(Tail(s))
    ELSE <<Head(s)>> \o Normalize(Tail(s))

\* a parser without the check for an empty expression
IsEmptyExprNever(expr) == FALSE

\* `if not expr`
IsEmptyExpr(expr) == expr = <<>>

\* a scan that gives '+', '-', '*' and '/' one precedence: it stops at the
\* rightmost operator at level 0 whatever opset is
RECURSIVE ScanSplitAnyOperator(_, _, _, _)
ScanSplitAnyOperator(expr, i, level, opset) ==
    IF i = 0 THEN 0
    ELSE IF expr[i] = ")" THEN ScanSplitAnyOperator(expr, i - 1, level + 1, opset)
    ELSE IF expr[i] = "(" THEN
        IF level - 1 < 0 THEN 0 - 1
        ELSE ScanSplitAnyOperator(expr, i - 1, level - 1, opset)
    ELSE IF level = 0 /\ expr[i] \in Operators THEN i
    ELSE ScanSplitAnyOperator(expr, i - 1, level, opset)

\* The right-to-left scan for an operator of opset at parenthesis level 0,
\* from position i with the level reached so far: the position of the split,
\* 0 when the scan ends without one, -1 when it raises "Mismatched
\* parentheses" (the level goes below 0).
RECURSIVE ScanSplit(_, _, _, _)
ScanSplit(expr, i, level, opset) ==
    IF i = 0 THEN 0
    ELSE IF expr[i] = ")" THEN ScanSplit(expr, i - 1, level + 1, opset)
    ELSE IF expr[i] = "(" THEN
        IF level - 1 < 0 THEN 0 - 1
        ELSE ScanSplit(expr, i - 1, level - 1, opset)
    ELSE IF level = 0 /\ expr[i] \in opset THEN i
    ELSE ScanSplit(expr, i - 1, level, opset)

\* `if not left_expr or not right_expr`
EmptyOperand(left_expr, right_expr) == left_expr = <<>> \/ right_expr = <<>>

\* expr.count(c)
RECURSIVE Count(_, _)
Count(s, c) ==
    IF s = <<>> THEN 0
    ELSE (IF Head(s) = c THEN 1 ELSE 0) + Count(Tail(s), c)

\* The loop that verifies the wrapping: the position at which it stops (the
\* first ')' that brings the level back to 0 before the last character, else
\* the last position) and the level there.
RECURSIVE WrapScan(_, _, _)
WrapScan(expr, i, paren_level) ==
    LET lvl == IF expr[i] = "(" THEN paren_level + 1
               ELSE IF expr[i] = ")" THEN paren_level - 1
               ELSE paren_level
    IN  IF expr[i] = ")" /\ lvl = 0 /\ i < Len(expr) THEN [i |-> i, level |-> lvl]
        ELSE IF i = Len(expr) THEN [i |-> i, level |-> lvl]
        ELSE WrapScan(expr, i + 1, lvl)

\* expr.startswith(c) and expr.endswith(c) for a character c
StartsWith(expr, c) == Len(expr) > 0 /\ expr[1] = c

EndsWith(expr, c) == Len(expr) > 0 /\ expr[Len(expr)] = c

\* `len(expr) == 1 or all(c.isalnum() or c == '_' for c in expr)`
IsVariableToken(expr) ==
    Len(expr) = 1 \/ \A k \in 1..Len(expr) : IsAlnumOrUnderscore(expr[k])

\* _parse_expression(expr) on the node map ns with next id nid: whether it
\* returned (ok) or raised ValueError, the node map and next id it leaves,
\* and the node it returned.
RECURSIVE ParseExpr(_, _, _)
\* the split at position i: create the operation node, parse left, parse right
ParseSplit(expr, i, ns, nid) ==
    LET left_expr  == SubSeq(expr, 1, i - 1)
        right_expr == SubSeq(expr, i + 1, Len(expr))
    IN  IF EmptyOperand(left_expr, right_expr)
        THEN [ok |-> FALSE, nodes |-> ns, next_id |-> nid, node |-> NoneRef]
        ELSE LET ns1 == create_node(ns, nid, <<expr[i]>>, "operation")
                 l   == ParseExpr(left_expr, ns1, nid + 1)
             IN  IF ~l.ok THEN l
                 ELSE LET r == ParseExpr(right_expr, l.nodes, l.next_id)
                      IN  IF ~r.ok THEN r
                          ELSE [ok |-> TRUE,
                                nodes |-> add_child(add_child(r.nodes, nid, l.node),
                                                    nid, r.node),
                                next_id |-> r.next_id, node |-> nid]

ParseExpr(expr, ns, nid) ==
    LET fail == [ok |-> FALSE, nodes |-> ns, next_id |-> nid, node |-> NoneRef]
    IN
    IF IsEmptyExpr(expr) THEN fail
    ELSE LET a == ScanSplit(expr, Len(expr), 0, AddOps) IN
    IF a < 0 THEN fail
    ELSE IF a > 0 THEN ParseSplit(expr, a, ns, nid)
    ELSE LET m == ScanSplit(expr, Len(expr), 0, MulOps) IN
    IF m < 0 THEN fail
    ELSE IF m > 0 THEN ParseSplit(expr, m, ns, nid)
    ELSE IF StartsWith(expr, "(") /\ EndsWith(expr, ")")
            /\ Count(expr, "(") # Count(expr, ")")
         THEN fail
    ELSE IF StartsWith(expr, "(") /\ EndsWith(expr, ")")
            /\ WrapScan(expr, 1, 0) = [i |-> Len(expr), level |-> 0]
         THEN ParseExpr(SubSeq(expr, 2, Len(expr) - 1), ns, nid)
    ELSE IF IsVariableToken(expr)
         THEN [ok |-> TRUE, nodes |-> create_node(ns, nid, expr, "variable"),
               next_id |-> nid + 1, node |-> nid]
    ELSE fail

\* ------------------------------------------------------------------------
\* Three-address code
\* ------------------------------------------------------------------------

Digit(d) == <<"0", "1", "2", "3", "4", "5", "6", "7", "8", "9">>[d + 1]

\* str(n) of a non-negative integer
RECURSIVE ToStr(_)
ToStr(n) == IF n < 10 THEN <<Digit(n)>> ELSE ToStr(n \div 10) \o <<Digit(n % 10)>>

\* get_next_temp: f"t{self.temp_counter}"
TempName(counter) == <<"t">> \o ToStr(counter)

\* One instruction f"{temp} = {left_result} {node.value} {right_result}" as
\* its four fields (no field contains a blank, so the string and the record
\* determine each other).
Instruction(temp, left_result, value, right_result) ==
    [temp |-> temp, left |-> left_result, op |-> value, right |-> right_result]

\* _generate_three_address_code(node) from the code list and temp counter in
\* st: the list and counter it leaves and the result name it returns (<<>>
\* for None).
RECURSIVE GenTAC(_, _, _)
GenTAC(ns, node, st) ==
    IF ns[node].node_type = "variable"
    THEN [code |-> st.code, temp_counter |-> st.temp_counter, result |-> ns[node].value]
    ELSE IF Len(ns[node].children) = 2
    THEN LET l == GenTAC(ns, ns[node].children[1], st)
             r == GenTAC(ns, ns[node].children[2], l)
             temp == TempName(r.temp_counter)
         IN  [code |-> Append(r.code, Instruction(temp, l.result, ns[node].value, r.result)),
              temp_counter |-> r.temp_counter + 1,
              result |-> temp]
    ELSE [code |-> st.code, temp_counter |-> st.temp_counter, result |-> <<>>]

\* ------------------------------------------------------------------------
\* assign_labels
\* ------------------------------------------------------------------------

Max(a, b) == IF a >= b THEN a ELSE b

\* a labeler that gives every leaf 1, whichever operand it is
LeafLabelAlwaysOne(is_leftmost) == 1

\* the label of a variable leaf
LeafLabel(is_leftmost) == IF is_leftmost THEN 1 ELSE 0

\* a rule that never adds the register two equal operands need
OpLabelMax(left_label, right_label) == Max(left_label, right_label)

\* the Sethi-Ullman rule at a binary operation
OpLabel(left_label, right_label) ==
    IF left_label = right_label THEN left_label + 1 ELSE Max(left_label, right_label)

\* a labeler that adds to the label a leaf already carries (`+=` for `=`)
RECURSIVE AssignLabelAccumulating(_, _, _)
AssignLabelAccumulating(ns, node, is_leftmost) ==
    IF ns[node].node_type = "variable"
    THEN [ns EXCEPT ![node].label =
              (IF @ = NoneRef THEN 0 ELSE @) + (IF is_leftmost THEN 1 ELSE 0)]
    ELSE IF Len(ns[node].children) = 2
    THEN LET ns1 == AssignLabelAccumulating(ns, ns[node].children[1], TRUE)
             left_label == ns1[ns[node].children[1]].label
             ns2 == AssignLabelAccumulating(ns1, ns[node].children[2], FALSE)
             right_label == ns2[ns[node].children[2]].label
         IN  [ns2 EXCEPT ![node].label =
                  IF left_label = right_label THEN left_label + 1
                  ELSE Max(left_label, right_label)]
    ELSE IF Len(ns[node].children) = 1
    THEN LET ns1 == AssignLabelAccumulating(ns, ns[node].children[1], TRUE)
         IN  [ns1 EXCEPT ![node].label = ns1[ns[node].children[1]].label]
    ELSE [ns EXCEPT ![node].label = 1]

\* _assign_label(node, is_leftmost): the node map with the labels of the
\* subtree of node assigned
RECURSIVE AssignLabel(_, _, _)
AssignLabel(ns, node, is_leftmost) ==
    IF ns[node].node_type = "variable"
    THEN [ns EXCEPT ![node].label = LeafLabel(is_leftmost)]
    ELSE IF Len(ns[node].children) = 2
    THEN LET ns1 == AssignLabel(ns, ns[node].children[1], TRUE)
             left_label == ns1[ns[node].children[1]].label
             ns2 == AssignLabel(ns1, ns[node].children[2], FALSE)
             right_label == ns2[ns[node].children[2]].label
         IN  [ns2 EXCEPT ![node].label = OpLabel(left_label, right_label)]
    ELSE IF Len(ns[node].children) = 1
    THEN LET ns1 == AssignLabel(ns, ns[node].children[1], TRUE)
         IN  [ns1 EXCEPT ![node].label = ns1[ns[node].children[1]].label]
    ELSE [ns EXCEPT ![node].label = 1]

\* ------------------------------------------------------------------------
\* rearrange_dag
\* ------------------------------------------------------------------------

Commutative == {<<"+">>, <<"*">>}

\* a swap with the comparison reversed
ShouldSwapReversed(value, left_label, right_label) ==
    value \in Commutative /\ left_label > right_label

\* a swap that does not look at the operator
ShouldSwapAnyOperator(value, left_label, right_label) == right_label > left_label

\* `node.value in ['+', '*']` and `right_child.label > left_child.label`
ShouldSwap(value, left_label, right_label) ==
    value \in Commutative /\ right_label > left_label

\* a regrouping across two different operators
IsAssocCandidateMixed(value, left_value) ==
    value \in Commutative /\ left_value \in Commutative

\* `node.value in ['+', '*'] and left_child.value == node.value`
IsAssocCandidate(value, left_value) ==
    value \in Commutative /\ left_value = value

\* a regrouping that is also committed when it gains nothing (`<=` for `<`)
ShouldRegroupNotWorse(new_max, current_max) == new_max <= current_max

\* `new_max < current_max`
ShouldRegroup(new_max, current_max) == new_max < current_max

\* The comparison of two labels raises TypeError when a label is None.
LabelsComparable(ns, a, b) == ns[a].label # NoneRef /\ ns[b].label # NoneRef

\* _rearrange_node(node) on st = [nodes, next_id, ok]: the node map and
\* next id it leaves; ok is FALSE when it raised.  It always returns node.
RECURSIVE RearrangeNode(_, _)
RECURSIVE RearrangeChildren(_, _, _)
\* `for i in range(len(node.children)): node.children[i] = ...`
RearrangeChildren(st, node, i) ==
    IF ~st.ok \/ i > Len(st.nodes[node].children) THEN st
    ELSE RearrangeChildren(RearrangeNode(st, st.nodes[node].children[i]), node, i + 1)

\* the associativity step at node, whose children were left_child and
\* right_child when the binary case was entered
Regroup(st, node, left_child, right_child) ==
    LET ns == st.nodes
        left_left == ns[left_child].children[1]
        left_right == ns[left_child].children[2]
        current_max == Max(ns[left_child].label, ns[right_child].label)
        temp_node == st.next_id
        created == add_child(add_child(
                       create_node(ns, st.next_id, ns[node].value, "operation"),
                       temp_node, left_right), temp_node, right_child)
        labelled == AssignLabel(created, temp_node, TRUE)
        new_max == Max(labelled[left_left].label, labelled[temp_node].label)
    IN  [nodes |-> IF ShouldRegroup(new_max, current_max)
                   THEN [labelled EXCEPT ![node].children = <<left_left, temp_node>>]
                   ELSE labelled,
         next_id |-> st.next_id + 1,
         ok |-> TRUE]

RearrangeNode(st0, node) ==
    IF ~st0.ok \/ st0.nodes[node].node_type = "variable" THEN st0
    ELSE LET st == RearrangeChildren(st0, node, 1) IN
    IF ~st.ok \/ Len(st.nodes[node].children) # 2 THEN st
    ELSE LET ns == st.nodes
             value == ns[node].value
             left_child == ns[node].children[1]
             right_child == ns[node].children[2]
         IN
         IF value \in Commutative /\ ~LabelsComparable(ns, left_child, right_child)
         THEN [st EXCEPT !.ok = FALSE]
         ELSE LET swapped ==
                    IF ShouldSwap(value, ns[left_child].label, ns[right_child].label)
                    THEN [st EXCEPT !.nodes[node].children = <<right_child, left_child>>]
                    ELSE st
              IN  IF IsAssocCandidate(value, ns[left_child].value)
                  THEN Regroup(swapped, node, left_child, right_child)
                  ELSE swapped

\* ------------------------------------------------------------------------
\* get_allocation_steps
\* ------------------------------------------------------------------------

\* the registers held in register_map
Held(register_map) == {register_map[k] : k \in DOMAIN register_map}

\* register_map[key] = reg
MapPut(register_map, key, reg) ==
    [k \in (DOMAIN register_map) \cup {key} |->
        IF k = key THEN reg ELSE register_map[k]]

\* `for k, v in list(register_map.items()): if v == right_reg: del register_map[k]`
MapFree(register_map, right_reg) ==
    [k \in {j \in DOMAIN register_map : register_map[j] # right_reg} |-> register_map[k]]

\* `R{len(register_map) + 1}`: the register a variable is loaded into
FreshRegister(register_map) == Cardinality(DOMAIN register_map) + 1

\* `left_child.label < right_child.label`: evaluate the right subtree first
RightFirst(left_label, right_label) == left_label < right_label

\* A step of the trace.  "load": f"Load {value} into R{reg}"; "op":
\* f"R{reg} {value} R{right} -> R{reg}".  live is not part of the string: it
\* is the set of registers register_map holds once the step is done.
LoadStep(value, reg, register_map) ==
    [kind |-> "load", value |-> value, reg |-> reg, right |-> 0,
     live |-> Held(register_map)]

OpStep(value, left_reg, right_reg, register_map) ==
    [kind |-> "op", value |-> value, reg |-> left_reg, right |-> right_reg,
     live |-> Held(register_map)]

\* _generate_allocation_steps(node, steps, register_map) on
\* st = [steps, register_map, reg, ok]: the steps and map it leaves and the
\* register it returns (0 for None); ok is FALSE when it raised TypeError.
RECURSIVE GenSteps(_, _, _)
GenSteps(ns, node, st) ==
    IF ~st.ok THEN st
    ELSE IF ns[node].node_type = "variable"
    THEN LET reg == FreshRegister(st.register_map)
             map == MapPut(st.register_map, node, reg)
         IN  [steps |-> Append(st.steps, LoadStep(ns[node].value, reg, map)),
              register_map |-> map, reg |-> reg, ok |-> TRUE]
    ELSE IF Len(ns[node].children) = 2
    THEN LET left_child == ns[node].children[1]
             right_child == ns[node].children[2]
         IN
         IF ~LabelsComparable(ns, left_child, right_child)
         THEN [st EXCEPT !.ok = FALSE]
         ELSE LET right_first == RightFirst(ns[left_child].label, ns[right_child].label)
                  first == GenSteps(ns, IF right_first THEN right_child ELSE left_child, st)
                  second == GenSteps(ns, IF right_first THEN left_child ELSE right_child, first)
                  left_reg == IF right_first THEN second.reg ELSE first.reg
                  right_reg == IF right_first THEN first.reg ELSE second.reg
                  map == MapPut(MapFree(second.register_map, right_reg), node, left_reg)
              IN  IF ~second.ok THEN second
                  ELSE [steps |-> Append(second.steps,
                                         OpStep(ns[node].value, left_reg, right_reg, map)),
                        register_map |-> map, reg |-> left_reg, ok |-> TRUE]
    ELSE [st EXCEPT !.reg = 0]

\* ------------------------------------------------------------------------
\* The public methods of RegisterAllocator as functions of the state
\* ------------------------------------------------------------------------

\* the state of a fresh allocator: __init__ and reset
EmptyNodes == <<>>

\* assign_labels on the node map ns with root r: the node map it leaves
AssignLabels(ns, r) == IF r # NoneRef THEN AssignLabel(ns, r, TRUE) ELSE ns

\* the value assign_labels returns (NoneRef for None)
AssignLabelsResult(ns, r) == IF r # NoneRef THEN AssignLabels(ns, r)[r].label ELSE NoneRef

\* parse_expression: reset, normalize, parse, generate the code.  When the
\* parse raises, root is still None and the nodes created so far remain.
ParseExpression(e) ==
    LET parsed == ParseExpr(Normalize(e), EmptyNodes, 0)
        tac == GenTAC(parsed.nodes, parsed.node, [code |-> <<>>, temp_counter |-> 1])
    IN  [ok |-> parsed.ok, nodes |-> parsed.nodes, next_id |-> parsed.next_id,
         root |-> IF parsed.ok THEN parsed.node ELSE NoneRef,
         three_address_code |-> IF parsed.ok THEN tac.code ELSE <<>>,
         temp_counter |-> IF parsed.ok THEN tac.temp_counter ELSE 1]

\* rearrange_dag with a root, the allocator holding the code list code:
\* rearrange, relabel, regenerate the code (the list is emptied, the temp
\* counter is not reset).  When _rearrange_node raises nothing after it
\* runs: the code list and the counter stay as they were.
RearrangeDag(ns, r, nid, tc, code) ==
    LET re == RearrangeNode([nodes |-> ns, next_id |-> nid, ok |-> TRUE], r)
        labelled == AssignLabels(re.nodes, r)
        tac == GenTAC(labelled, r, [code |-> <<>>, temp_counter |-> tc])
    IN  IF re.ok
        THEN [ok |-> TRUE, nodes |-> labelled, next_id |-> re.next_id,
              three_address_code |-> tac.code, temp_counter |-> tac.temp_counter]
        ELSE [ok |-> FALSE, nodes |-> re.nodes, next_id |-> re.next_id,
              three_address_code |-> code, temp_counter |-> tc]

\* get_allocation_steps with a root
AllocationSteps(ns, r) ==
    GenSteps(ns, r, [steps |-> <<>>, register_map |-> <<>>, reg |-> 0, ok |-> TRUE])

\* ------------------------------------------------------------------------
\* Actions of the expression path
\* ------------------------------------------------------------------------

ExprInit ==
    /\ nodes = EmptyNodes
    /\ root = NoneRef
    /\ next_id = 0
    /\ three_address_code = <<>>
    /\ temp_counter = 1
    /\ expression \in Inputs
    /\ steps = <<>>
    /\ raised = FALSE
    /\ op = "init"
    /\ rearrangements = 0

\* Every request parses its expression with an allocator of its own.
parse_expression ==
    /\ op = "init"
    /\ LET p == ParseExpression(expression) IN
        /\ nodes' = p.nodes
        /\ root' = p.root
        /\ next_id' = p.next_id
        /\ three_address_code' = p.three_address_code
        /\ temp_counter' = p.temp_counter
        /\ raised' = ~p.ok
        /\ steps' = <<>>
        /\ op' = "parse_expression"
        /\ rearrangements' = 0
        /\ UNCHANGED expression

assign_labels ==
    /\ op # "init"
    /\ nodes' = AssignLabels(nodes, root)
    /\ raised' = FALSE
    /\ steps' = <<>>
    /\ op' = "assign_labels"
    /\ UNCHANGED <<root, next_id, three_address_code, temp_counter, expression,
                   rearrangements>>

rearrange_dag ==
    /\ op # "init"
    /\ root # NoneRef => rearrangements < MaxRearrange
    /\ IF root # NoneRef
       THEN LET r == RearrangeDag(nodes, root, next_id, temp_counter, three_address_code) IN
            /\ nodes' = r.nodes
            /\ next_id' = r.next_id
            /\ three_address_code' = r.three_address_code
            /\ temp_counter' = r.temp_counter
            /\ raised' = ~r.ok
       ELSE /\ raised' = FALSE
            /\ UNCHANGED <<nodes, next_id, three_address_code, temp_counter>>
    /\ steps' = <<>>
    /\ op' = "rearrange_dag"
    /\ rearrangements' = (IF root # NoneRef THEN rearrangements + 1 ELSE rearrangements)
    /\ UNCHANGED <<root, expression>>

get_allocation_steps ==
    /\ op # "init"
    /\ IF root # NoneRef
       THEN LET g == AllocationSteps(nodes, root) IN
            /\ steps' = (IF g.ok THEN g.steps ELSE <<>>)
            /\ raised' = ~g.ok
       ELSE /\ steps' = <<>>
            /\ raised' = FALSE
    /\ op' = "get_allocation_steps"
    /\ UNCHANGED <<nodes, root, next_id, three_address_code, temp_counter,
                   expression, rearrangements>>

ExprNext ==
    \/ parse_expression
    \/ assign_labels
    \/ rearrange_dag
    \/ get_allocation_steps

\* ------------------------------------------------------------------------
\* DAGRegisterAllocation: state
\* ------------------------------------------------------------------------

VARIABLES
    dag_nodes,       \* self.dag.nodes, in insertion order
    dag_edges,       \* self.dag.edges: a set of <<from_node, to_node>>
    node_labels,     \* self.node_labels: node -> level
    live_ranges,     \* self.live_ranges: node -> <<start, end>>
    registers,       \* self.registers: node -> register index
    register_count,  \* second component of the last allocate_registers result
    dag_op           \* the last method called

dagVars == <<dag_nodes, dag_edges, node_labels, live_ranges, registers,
             register_count, dag_op>>

\* the node ids a caller uses
NodeIds == 0..(MaxDagNodes - 1)

\* the elements of a sequence
Range(seq) == {seq[i] : i \in 1..Len(seq)}

\* ------------------------------------------------------------------------
\* DAGRegisterAllocation: graph queries (networkx)
\* ------------------------------------------------------------------------

\* self.dag.predecessors(node)
Predecessors(edges, node) == {e[1] : e \in {d \in edges : d[2] = node}}

\* self.dag.successors(node)
Successors(edges, node) == {e[2] : e \in {d \in edges : d[1] = node}}

\* the nodes reached from the set frontier, after at most k more edges
RECURSIVE ReachFrom(_, _, _)
ReachFrom(edges, frontier, k) ==
    IF k = 0 THEN frontier
    ELSE LET next == frontier \cup UNION {Successors(edges, n) : n \in frontier}
         IN  IF next = frontier THEN frontier ELSE ReachFrom(edges, next, k - 1)

\* nx.descendants(self.dag, node): every node reachable from node by at
\* least one edge (node itself excluded; the graph is acyclic)
Descendants(edges, node) ==
    ReachFrom(edges, Successors(edges, node), Cardinality(edges)) \ {node}

\* the subsequence of seq of the elements in set
RECURSIVE Filter(_, _)
Filter(seq, set) ==
    IF seq = <<>> THEN <<>>
    ELSE IF Head(seq) \in set THEN <<Head(seq)>> \o Filter(Tail(seq), set)
    ELSE Filter(Tail(seq), set)

\* nx.topological_sort(self.dag): generation by generation (a node enters
\* when all its predecessors are in earlier generations); done are the nodes
\* already yielded.  The nodes of one generation have no edges among them,
\* and they are listed here in insertion order.
RECURSIVE TopologicalSort(_, _, _)
TopologicalSort(ns, edges, done) ==
    LET generation == {n \in Range(ns) \ done : Predecessors(edges, n) \subseteq done}
    IN  IF generation = {} THEN <<>>
        ELSE Filter(ns, generation) \o TopologicalSort(ns, edges, done \cup generation)

\* ------------------------------------------------------------------------
\* compute_node_levels
\* ------------------------------------------------------------------------

\* `levels[node] = max(levels[node], levels[pred] + 1)` over the predecessors
\* of node (a set: max is order-independent)
RECURSIVE UpdateLevel(_, _, _)
UpdateLevel(levels, node, preds) ==
    IF preds = {} THEN levels
    ELSE LET pred == CHOOSE q \in preds : TRUE
         IN  UpdateLevel([levels EXCEPT ![node] = Max(levels[node], levels[pred] + 1)],
                         node, preds \ {pred})

\* the loop over the topological order
RECURSIVE LevelLoop(_, _, _)
LevelLoop(levels, order, edges) ==
    IF order = <<>> THEN levels
    ELSE LevelLoop(UpdateLevel(levels, Head(order), Predecessors(edges, Head(order))),
                   Tail(order), edges)

\* a loop over the nodes in insertion order instead of topological order
ComputeNodeLevelsInsertionOrder(ns, edges) ==
    LevelLoop([n \in Range(ns) |-> 0], ns, edges)

ComputeNodeLevels(ns, edges) ==
    LevelLoop([n \in Range(ns) |-> 0], TopologicalSort(ns, edges, {}), edges)

\* ------------------------------------------------------------------------
\* compute_live_ranges
\* ------------------------------------------------------------------------

\* `for succ in nx.descendants(...): if levels[succ] > end: end = levels[succ]`
RECURSIVE RangeEnd(_, _, _)
RangeEnd(levels, end, descendants) ==
    IF descendants = {} THEN end
    ELSE LET succ == CHOOSE q \in descendants : TRUE
         IN  RangeEnd(levels, IF levels[succ] > end THEN levels[succ] ELSE end,
                      descendants \ {succ})

ComputeLiveRanges(ns, edges) ==
    LET levels == ComputeNodeLevels(ns, edges)
    IN  [n \in Range(ns) |-> <<levels[n], RangeEnd(levels, levels[n], Descendants(edges, n))>>]

\* ------------------------------------------------------------------------
\* allocate_registers
\* ------------------------------------------------------------------------

\* sorted(seq, key=start): the stable insertion of node into a sorted list
RECURSIVE InsertSorted(_, _, _)
InsertSorted(sorted, node, ranges) ==
    IF sorted = <<>> THEN <<node>>
    ELSE IF ranges[Head(sorted)][1] <= ranges[node][1]
    THEN <<Head(sorted)>> \o InsertSorted(Tail(sorted), node, ranges)
    ELSE <<node>> \o sorted

RECURSIVE SortedByStart(_, _)
SortedByStart(ns, ranges) ==
    IF ns = <<>> THEN <<>>
    ELSE InsertSorted(SortedByStart(SubSeq(ns, 1, Len(ns) - 1), ranges), ns[Len(ns)], ranges)

\* a test that takes two ranges that only touch (one ends at the level
\* at which the other starts) for disjoint
OverlapStrict(range, other) == ~(range[2] <= other[1] \/ range[1] >= other[2])

\* `not (end < other_start or start > other_end)`
Overlap(range, other) == ~(range[2] < other[1] \/ range[1] > other[2])

\* set(range(len(self.dag.nodes))) less the registers of the nodes in use
\* whose live range overlaps that of node
AvailableRegisters(node, ranges, in_use, n) ==
    (0..(n - 1)) \ {in_use[o] : o \in {q \in DOMAIN in_use : Overlap(ranges[node], ranges[q])}}

\* min(available_registers)
Min(set) == CHOOSE m \in set : \A k \in set : m <= k

\* the register chosen for node and the max_register it leaves
ChooseRegister(available, max_register) ==
    IF available # {}
    THEN [reg |-> Min(available), max_register |-> max_register]
    ELSE [reg |-> max_register + 1, max_register |-> max_register + 1]

\* the loop over the sorted nodes on st = [in_use, max_register]
RECURSIVE AllocateLoop(_, _, _, _)
AllocateLoop(order, ranges, n, st) ==
    IF order = <<>> THEN st
    ELSE LET node == Head(order)
             c == ChooseRegister(AvailableRegisters(node, ranges, st.in_use, n),
                                 st.max_register)
         IN  AllocateLoop(Tail(order), ranges, n,
                          [in_use |-> MapPut(st.in_use, node, c.reg),
                           max_register |-> c.max_register])

\* allocate_registers: the registers assigned in this call and the count
\* returned (max_register + 1)
AllocateRegisters(ns, edges) ==
    LET ranges == ComputeLiveRanges(ns, edges)
        st == AllocateLoop(SortedByStart(ns, ranges), ranges, Len(ns),
                           [in_use |-> <<>>, max_register |-> 0 - 1])
    IN  [registers |-> st.in_use, register_count |-> st.max_register + 1]

\* ------------------------------------------------------------------------
\* Actions of the generic-DAG path
\* ------------------------------------------------------------------------

DagInit ==
    /\ dag_nodes = <<>>
    /\ dag_edges = {}
    /\ node_labels = <<>>
    /\ live_ranges = <<>>
    /\ registers = <<>>
    /\ register_count = NoneRef
    /\ dag_op = "init"

\* self.dag.add_node: a node already present keeps its place
AddNode(ns, node_id) == IF node_id \in Range(ns) THEN ns ELSE Append(ns, node_id)

\* The callers (example_dag.py, __main__) build the graph first and analyse
\* it afterwards.
Building == dag_op \in {"init", "add_node", "add_edge"}

add_node ==
    \E node_id \in NodeIds :
        /\ Building
        /\ dag_nodes' = AddNode(dag_nodes, node_id)
        /\ dag_op' = "add_node"
        /\ UNCHANGED <<dag_edges, node_labels, live_ranges, registers, register_count>>

\* The caller keeps the graph acyclic (a required precondition): the edge
\* is added only if to_node does not reach from_node.
add_edge ==
    \E from_node \in NodeIds, to_node \in NodeIds :
        /\ Building
        /\ from_node # to_node
        /\ from_node \notin Descendants(dag_edges, to_node)
        /\ dag_nodes' = AddNode(AddNode(dag_nodes, from_node), to_node)
        /\ dag_edges' = dag_edges \cup {<<from_node, to_node>>}
        /\ dag_op' = "add_edge"
        /\ UNCHANGED <<node_labels, live_ranges, registers, register_count>>

compute_node_levels ==
    /\ node_labels' = ComputeNodeLevels(dag_nodes, dag_edges)
    /\ dag_op' = "compute_node_levels"
    /\ UNCHANGED <<dag_nodes, dag_edges, live_ranges, registers, register_count>>

compute_live_ranges ==
    /\ node_labels' = ComputeNodeLevels(dag_nodes, dag_edges)
    /\ live_ranges' = ComputeLiveRanges(dag_nodes, dag_edges)
    /\ dag_op' = "compute_live_ranges"
    /\ UNCHANGED <<dag_nodes, dag_edges, registers, register_count>>

\* self.registers[node] = reg for every node of the graph (nodes are never
\* removed, so every earlier entry is overwritten)
allocate_registers ==
    LET a == AllocateRegisters(dag_nodes, dag_edges) IN
    /\ node_labels' = ComputeNodeLevels(dag_nodes, dag_edges)
    /\ live_ranges' = ComputeLiveRanges(dag_nodes, dag_edges)
    /\ registers' = a.registers
    /\ register_count' = a.register_count
    /\ dag_op' = "allocate_registers"
    /\ UNCHANGED <<dag_nodes, dag_edges>>

DagNext ==
    \/ add_node
    \/ add_edge
    \/ compute_node_levels
    \/ compute_live_ranges
    \/ allocate_registers

\* ------------------------------------------------------------------------
\* Specifications
\* ------------------------------------------------------------------------

vars == <<exprVars, dagVars>>

\* the expression path: one request from its expression to its results
Init == ExprInit /\ DagInit

Next == ExprNext /\ UNCHANGED dagVars

Spec == Init /\ [][Next]_vars

\* the generic-DAG path: a graph is built and analysed
InitDag == DagInit /\ ExprInit /\ expression = <<>>

NextDag == DagNext /\ UNCHANGED exprVars

SpecDag == InitDag /\ [][NextDag]_vars

\* ------------------------------------------------------------------------
\* Views of the state used by the properties
\* ------------------------------------------------------------------------

\* the tree below node, written with every operation in parentheses
RECURSIVE Ser(_, _)
Ser(ns, node) ==
    IF ns[node].node_type = "operation" /\ Len(ns[node].children) = 2
    THEN Paren(Ser(ns, ns[node].children[1]) \o ns[node].value
               \o Ser(ns, ns[node].children[2]))
    ELSE ns[node].value

\* the ids of the nodes of the tree below node
RECURSIVE Reachable(_, _)
Reachable(ns, node) ==
    {node} \cup UNION {Reachable(ns, ns[node].children[i]) : i \in 1..Len(ns[node].children)}

\* the number of '(' less the number of ')' in s
Depth(s) == Count(s, "(") - Count(s, ")")

\* the parentheses of s are balanced: as many '(' as ')' and no prefix that
\* closes more than it opened
Balanced(s) ==
    /\ Depth(s) = 0
    /\ \A k \in 1..Len(s) : Depth(SubSeq(s, 1, k)) >= 0

\* the expression of the request as _parse_expression receives it
Text == Normalize(expression)

\* the allocator holds a parsed expression whose labels are assigned
Labelled == root # NoneRef /\ nodes[root].label # NoneRef

\* what rearrange_dag would leave if it were called in this state
Rearranged == RearrangeDag(nodes, root, next_id, temp_counter, three_address_code)

\* the allocator as parse_expression left it for this request
Parsed == ParseExpression(expression)

\* the last call was rearrange_dag and it changed the shape of the tree
RearrangedShape ==
    /\ op = "rearrange_dag"
    /\ ~raised
    /\ root # NoneRef
    /\ Ser(nodes, root) # Ser(Parsed.nodes, Parsed.root)

\* ------------------------------------------------------------------------
\* C1
\* ------------------------------------------------------------------------

\* C1: after assign_labels, at every point of the trace returned by
\* get_allocation_steps the number of distinct registers that are live is at
\* most the label of the root.
\* (Stated for the expressions with balanced parentheses, so that a
\* violation does not rest on an input with a stray ')'.)
C1_PeakWithinRootLabel ==
    (op = "get_allocation_steps" /\ ~raised /\ Labelled /\ Balanced(Text)) =>
        \A i \in 1..Len(steps) : Cardinality(steps[i].live) <= nodes[root].label

\* ------------------------------------------------------------------------
\* C2
\* ------------------------------------------------------------------------

\* C2: for every parsed and labelled expression, the label of the root after
\* rearrange_dag is at most the label of the root before it.
C2_RearrangeNeverIncreasesLabel ==
    Labelled =>
        LET re == Rearranged
        IN  /\ re.ok
            /\ re.nodes[root].label <= nodes[root].label

\* a labelled tree that a rearrangement has reshaped, with its label
C2_Witness ==
    /\ RearrangedShape
    /\ nodes[root].label = 2
    /\ rearrangements = 1

\* ------------------------------------------------------------------------
\* C3
\* ------------------------------------------------------------------------

NonCommutative == {<<"-">>, <<"/">>}

\* C3: rearrange_dag leaves the ordered children of every '-' and '/'
\* operation node as they were.
C3_SubDivChildrenKept ==
    root # NoneRef =>
        LET re == Rearranged
        IN  re.ok =>
                \A id \in DOMAIN nodes :
                    (nodes[id].node_type = "operation" /\ nodes[id].value \in NonCommutative)
                        => re.nodes[id].children = nodes[id].children

\* rearrange_dag has run on a tree in which a '-' or '/' node has a right
\* operand with a greater label than its left one (the operands of a '+' or
\* '*' node there are swapped)
C3_Witness ==
    /\ op = "rearrange_dag"
    /\ ~raised
    /\ Labelled
    /\ \E id \in Reachable(nodes, root) :
          /\ nodes[id].node_type = "operation"
          /\ nodes[id].value \in NonCommutative
          /\ nodes[nodes[id].children[2]].label > nodes[nodes[id].children[1]].label

\* ------------------------------------------------------------------------
\* C4
\* ------------------------------------------------------------------------

\* The value of the tree below node under every interpretation in which
\* '+' and '*' are commutative and associative: a variable leaf is itself
\* (its node id), a '-' or '/' node is the ordered pair of its operands, and
\* a '+' or '*' node is the collection of the operands of its whole chain of
\* the same operator.  (No two operands are equal: every leaf occurs once.)
RECURSIVE Canon(_, _)
RECURSIVE ChainOperands(_, _, _)
ChainOperands(ns, node, value) ==
    IF ns[node].node_type = "operation" /\ ns[node].value = value
       /\ Len(ns[node].children) = 2
    THEN ChainOperands(ns, ns[node].children[1], value)
         \cup ChainOperands(ns, ns[node].children[2], value)
    ELSE {Canon(ns, node)}

Canon(ns, node) ==
    IF ns[node].node_type = "variable" \/ Len(ns[node].children) # 2
    THEN [value |-> ns[node].value, leaf |-> node, operands |-> {}, ordered |-> <<>>]
    ELSE IF ns[node].value \in Commutative
    THEN [value |-> ns[node].value, leaf |-> NoneRef,
          operands |-> ChainOperands(ns, node, ns[node].value), ordered |-> <<>>]
    ELSE [value |-> ns[node].value, leaf |-> NoneRef, operands |-> {},
          ordered |-> <<Canon(ns, ns[node].children[1]), Canon(ns, ns[node].children[2])>>]

\* C4: the tree below the root after rearrange_dag denotes the same value as
\* the tree before it whenever '+' and '*' are commutative and associative.
C4_RearrangePreservesMeaning ==
    root # NoneRef =>
        LET re == Rearranged
        IN  re.ok => Canon(re.nodes, root) = Canon(nodes, root)

\* a rearrangement has committed a regrouping: a node created after the
\* parse is in the tree
C4_Witness ==
    /\ RearrangedShape
    /\ \E id \in Reachable(nodes, root) : id >= Parsed.next_id

\* a rearrangement has swapped the operands of the root
C4_WitnessSwap ==
    /\ RearrangedShape
    /\ Len(nodes[root].children) = 2
    /\ nodes[root].children = <<Parsed.nodes[root].children[2], Parsed.nodes[root].children[1]>>

\* ------------------------------------------------------------------------
\* C6
\* ------------------------------------------------------------------------

\* the labels of the tree are those assign_labels has just assigned
FreshLabels == op \in {"assign_labels", "rearrange_dag"} /\ ~raised /\ root # NoneRef

\* node is child 0 of a node of the tree of ns
IsLeftChild(ns, node) ==
    \E q \in Reachable(ns, root) :
        Len(ns[q].children) >= 1 /\ ns[q].children[1] = node

\* node is child 1 of a node of the tree of ns
IsRightChild(ns, node) ==
    \E q \in Reachable(ns, root) :
        Len(ns[q].children) >= 2 /\ ns[q].children[2] = node

\* the Sethi-Ullman rule at node
SethiUllmanAt(ns, node) ==
    IF ns[node].node_type = "variable"
    THEN /\ (node = root \/ IsLeftChild(ns, node)) => ns[node].label = 1
         /\ IsRightChild(ns, node) => ns[node].label = 0
    ELSE LET L == ns[ns[node].children[1]].label
             R == ns[ns[node].children[2]].label
         IN  /\ Len(ns[node].children) = 2
             /\ L = R => ns[node].label = L + 1
             /\ L > R => ns[node].label = L
             /\ L < R => ns[node].label = R

\* what assign_labels would leave if it were called in this state
Relabelled == AssignLabels(nodes, root)

\* C6: assign_labels gives every node of the tree the label of the
\* Sethi-Ullman rule (a leaf 1 as child 0 or as the root and 0 as child 1; an
\* operation L+1 if L = R and max(L, R) otherwise), and returns the label of
\* the root; for "a+b": a = 1, b = 0, root = 1.
C6_SethiUllmanLabels ==
    root # NoneRef =>
        LET labelled == Relabelled
        IN  /\ \A node \in Reachable(nodes, root) : SethiUllmanAt(labelled, node)
            /\ AssignLabelsResult(nodes, root) = labelled[root].label
            /\ Text = <<"a", "+", "b">> =>
                  /\ AssignLabelsResult(nodes, root) = 1
                  /\ labelled[labelled[root].children[1]].label = 1
                  /\ labelled[labelled[root].children[2]].label = 0

\* assign_labels has labelled a tree whose root has two operands of equal
\* label 1, and a leaf that is a right operand
C6_Witness ==
    /\ op = "assign_labels"
    /\ ~raised
    /\ root # NoneRef
    /\ Len(nodes[root].children) = 2
    /\ nodes[nodes[root].children[1]].label = 1
    /\ nodes[nodes[root].children[2]].label = 1
    /\ nodes[root].label = 2
    /\ \E node \in Reachable(nodes, root) :
          nodes[node].node_type = "variable" /\ nodes[node].label = 0

\* ------------------------------------------------------------------------
\* C7
\* ------------------------------------------------------------------------

\* C7: a second assign_labels on a tree whose structure has not changed since
\* the first leaves every label, and the value returned, as they were.
C7_LabelingIdempotent ==
    FreshLabels =>
        /\ AssignLabels(nodes, root) = nodes
        /\ AssignLabelsResult(nodes, root) = nodes[root].label

\* assign_labels has labelled a single variable, and a tree with operations
C7_Witness ==
    /\ op = "assign_labels"
    /\ ~raised
    /\ root # NoneRef
    /\ nodes[root].node_type = "operation"
    /\ nodes[root].label = 2
    /\ AssignLabels(nodes, root) = nodes

\* ------------------------------------------------------------------------
\* C8
\* ------------------------------------------------------------------------

\* C8: parse_expression raises, and yields no tree, for every input whose
\* parentheses are unbalanced.
C8_UnbalancedRejected ==
    (op = "parse_expression" /\ ~Balanced(Text)) => (raised /\ root = NoneRef)

\* ------------------------------------------------------------------------
\* C9
\* ------------------------------------------------------------------------

\* An operand of s is empty: an operator is the first or the last character,
\* or follows an operator or a '(', or precedes an operator or a ')'; or a
\* '(' is closed at once.
HasEmptyOperand(s) ==
    \E i \in 1..Len(s) :
        \/ /\ s[i] \in Operators
           /\ \/ i = 1
              \/ i = Len(s)
              \/ s[i - 1] \in Operators \cup {"("}
              \/ s[i + 1] \in Operators \cup {")"}
        \/ i < Len(s) /\ s[i] = "(" /\ s[i + 1] = ")"

\* C9: parse_expression raises for the empty input and for every input in
\* which an operator has an empty left or right operand.
C9_EmptyOperandRejected ==
    (op = "parse_expression" /\ (Text = <<>> \/ HasEmptyOperand(Text)))
        => (raised /\ root = NoneRef)

\* the parse of "a*+a" has raised after it created the '+' node
C9_Witness ==
    /\ op = "parse_expression"
    /\ Text = <<"a", "*", "+", "a">>
    /\ raised
    /\ next_id > 0

\* the parse of the empty string has raised
C9_WitnessEmpty ==
    /\ op = "parse_expression"
    /\ expression = <<>>
    /\ raised

\* ------------------------------------------------------------------------
\* C10
\* ------------------------------------------------------------------------

\* the position i of s is outside all parentheses
Outside(s, i) == Depth(SubSeq(s, 1, i - 1)) = 0

\* the positions of the operators of opset outside all parentheses
SplitPoints(s, opset) == {i \in 1..Len(s) : s[i] \in opset /\ Outside(s, i)}

Rightmost(set) == CHOOSE m \in set : \A k \in set : k <= m

\* the split point of s: the rightmost '+'/'-' outside all parentheses, else
\* the rightmost '*'/'/' outside all parentheses, else 0
SplitPoint(s) ==
    IF SplitPoints(s, AddOps) # {} THEN Rightmost(SplitPoints(s, AddOps))
    ELSE IF SplitPoints(s, MulOps) # {} THEN Rightmost(SplitPoints(s, MulOps))
    ELSE 0

\* the tree of the rule of C10, written with every operation in parentheses
RECURSIVE SplitTree(_)
SplitTree(s) ==
    IF SplitPoint(s) # 0
    THEN Paren(SplitTree(SubSeq(s, 1, SplitPoint(s) - 1)) \o <<s[SplitPoint(s)]>>
               \o SplitTree(SubSeq(s, SplitPoint(s) + 1, Len(s))))
    ELSE IF StartsWith(s, "(") /\ EndsWith(s, ")") THEN SplitTree(SubSeq(s, 2, Len(s) - 1))
    ELSE s

\* C10: a well-formed expression is split at the rightmost '+'/'-' outside all
\* parentheses, else at the rightmost '*'/'/' outside all parentheses; every
\* operation node has two children, child 0 the parse of the text left of
\* the operator and child 1 the parse of the text right of it.  So "a-b-c"
\* is (a-b)-c and "a+b*c" is a+(b*c).
C10_SplitRule ==
    (op = "parse_expression" /\ ~raised /\ Balanced(Text)) =>
        /\ Ser(nodes, root) = SplitTree(Text)
        /\ \A id \in DOMAIN nodes :
              nodes[id].node_type = "operation" => Len(nodes[id].children) = 2
        /\ (nodes[root].node_type = "operation" /\ SplitPoint(Text) # 0) =>
              LET left == ParseExpression(SubSeq(Text, 1, SplitPoint(Text) - 1))
                  right == ParseExpression(SubSeq(Text, SplitPoint(Text) + 1, Len(Text)))
              IN  /\ nodes[root].value = <<Text[SplitPoint(Text)]>>
                  /\ left.ok /\ right.ok
                  /\ Ser(nodes, nodes[root].children[1]) = Ser(left.nodes, left.root)
                  /\ Ser(nodes, nodes[root].children[2]) = Ser(right.nodes, right.root)
        /\ Text = <<"a", "-", "b", "-", "c">> =>
              Ser(nodes, root) = <<"(", "(", "a", "-", "b", ")", "-", "c", ")">>
        /\ Text = <<"a", "+", "b", "*", "c">> =>
              Ser(nodes, root) = <<"(", "a", "+", "(", "b", "*", "c", ")", ")">>

\* "a-b-c" has been parsed
C10_Witness ==
    /\ op = "parse_expression"
    /\ ~raised
    /\ expression = <<"a", "-", "b", "-", "c">>
    /\ nodes[root].value = <<"-">>
    /\ nodes[nodes[root].children[1]].node_type = "operation"

\* "a+b*c" has been parsed
C10_WitnessPrecedence ==
    /\ op = "parse_expression"
    /\ ~raised
    /\ expression = <<"a", "+", "b", "*", "c">>
    /\ nodes[root].value = <<"+">>
    /\ nodes[nodes[root].children[2]].value = <<"*">>

\* ------------------------------------------------------------------------
\* C11
\* ------------------------------------------------------------------------

\* the request is one of the two expressions, parsed and labelled, and not
\* yet rearranged
ExampleLabelled ==
    /\ op = "assign_labels"
    /\ ~raised
    /\ rearrangements = 0
    /\ Text \in {ExampleRight, ExampleLeft}

\* the tree parse_expression builds for the other one of the two expressions
OtherExampleTree ==
    LET other == ParseExpression(IF Text = ExampleLeft THEN ExampleRight ELSE ExampleLeft)
    IN  Ser(other.nodes, other.root)

\* C11: "a+(b+c)" and "(a+b)+c" parse to different trees, assign_labels
\* gives the root of both the label 2, and rearrange_dag on "(a+b)+c" leaves
\* the label of its root unchanged.
C11_BothLabelTwo ==
    ExampleLabelled =>
        /\ Ser(nodes, root) # OtherExampleTree
        /\ AssignLabelsResult(nodes, root) = 2
        /\ nodes[root].label = 2
        /\ Text = ExampleLeft =>
              (Rearranged.ok /\ Rearranged.nodes[root].label = nodes[root].label)

\* C11 as amended: "a+(b+c)" and "(a+b)+c" parse to different trees,
\* assign_labels gives the root of "a+(b+c)" the label 2 and the root of
\* "(a+b)+c" the label 1, and rearrange_dag on "(a+b)+c" leaves the label of
\* its root unchanged.
C11_ExampleLabels ==
    ExampleLabelled =>
        /\ Ser(nodes, root) # OtherExampleTree
        /\ AssignLabelsResult(nodes, root) = (IF Text = ExampleRight THEN 2 ELSE 1)
        /\ nodes[root].label = (IF Text = ExampleRight THEN 2 ELSE 1)
        /\ Text = ExampleLeft =>
              (Rearranged.ok /\ Rearranged.nodes[root].label = nodes[root].label)

\* "(a+b)+c" has been parsed and labelled: its root (a+b)+c has the label 1
C11_Witness ==
    /\ ExampleLabelled
    /\ Text = ExampleLeft
    /\ Ser(nodes, root) = <<"(", "(", "a", "+", "b", ")", "+", "c", ")">>
    /\ nodes[root].label = 1

\* "a+(b+c)" has been parsed and labelled: its root has the label 2
C11_WitnessRight ==
    /\ ExampleLabelled
    /\ Text = ExampleRight
    /\ Ser(nodes, root) = <<"(", "a", "+", "(", "b", "+", "c", ")", ")">>
    /\ nodes[root].label = 2

\* ------------------------------------------------------------------------
\* C13
\* ------------------------------------------------------------------------

\* the binary operation nodes of the tree below node in post-order: those of
\* the left operand, those of the right operand, then node
RECURSIVE OperationsPostOrder(_, _)
OperationsPostOrder(ns, node) ==
    IF ns[node].node_type = "operation" /\ Len(ns[node].children) = 2
    THEN OperationsPostOrder(ns, ns[node].children[1])
         \o OperationsPostOrder(ns, ns[node].children[2]) \o <<node>>
    ELSE <<>>

\* the position of node in the sequence order
IndexOf(order, node) == CHOOSE i \in 1..Len(order) : order[i] = node

\* the name of the value of an operand in a list whose i-th statement
\* defines t<i>: the name of a variable, or the temporary of an operation
OperandName(ns, order, operand) ==
    IF ns[operand].node_type = "variable" THEN ns[operand].value
    ELSE TempName(IndexOf(order, operand))

\* the names of the temporaries a list defines
Temporaries(code) == {code[j].temp : j \in 1..Len(code)}

\* C13: every three-address code list the allocator holds (after
\* parse_expression and after each rearrange_dag) has one statement for each
\* binary operation node of the tree, in post-order; its i-th statement
\* defines the temporary t<i>; and every temporary used as an operand is
\* defined by an earlier statement of the list.
\* (Stated for the expressions with balanced parentheses.)
C13_CodeNumberedFromOne ==
    (root # NoneRef /\ ~raised /\ op # "init" /\ Balanced(Text)) =>
        LET order == OperationsPostOrder(nodes, root)
            code == three_address_code
        IN  /\ Len(code) = Len(order)
            /\ \A i \in 1..Len(code) :
                  /\ code[i].temp = TempName(i)
                  /\ code[i].op = nodes[order[i]].value
                  /\ code[i].left = OperandName(nodes, order, nodes[order[i]].children[1])
                  /\ code[i].right = OperandName(nodes, order, nodes[order[i]].children[2])
                  /\ \A name \in {code[i].left, code[i].right} :
                        name \in Temporaries(code) =>
                            \E j \in 1..(i - 1) : code[j].temp = name

\* ------------------------------------------------------------------------
\* C14
\* ------------------------------------------------------------------------

\* the registers that hold a live value when step i of the trace begins
LiveBefore(i) == IF i = 1 THEN {} ELSE steps[i - 1].live

\* C14: in the register trace of a labelled expression every load targets a
\* register that holds no live value at that moment, and no combine step has
\* the same register as both operands.
\* (Stated for the expressions with balanced parentheses.)
C14_LoadsIntoFreeRegister ==
    (op = "get_allocation_steps" /\ ~raised /\ Labelled /\ Balanced(Text)) =>
        \A i \in 1..Len(steps) :
            /\ steps[i].kind = "load" => steps[i].reg \notin LiveBefore(i)
            /\ steps[i].kind = "op" => steps[i].reg # steps[i].right

\* ------------------------------------------------------------------------
\* C16
\* ------------------------------------------------------------------------

\* the nodes of the map ns that have id among their children
Parents(ns, id) ==
    {q \in DOMAIN ns : \E i \in 1..Len(ns[q].children) : ns[q].children[i] = id}

\* C16: over all the nodes of the id -> node map, after parse_expression and
\* after any number of rearrange_dag calls, no node id is in the children
\* lists of more than one node.
\* (Stated for the expressions with balanced parentheses.)
C16_NodeMapIsTree ==
    (root # NoneRef /\ ~raised /\ Balanced(Text)) =>
        \A id \in DOMAIN nodes : Cardinality(Parents(nodes, id)) <= 1

\* ------------------------------------------------------------------------
\* C17
\* ------------------------------------------------------------------------

\* C17: between two resets the keys of the id -> node map are exactly
\* 0, ..., next_id - 1 and every node's id is its key; rearrange_dag deletes
\* no key, gives the nodes it creates the next ids, changes the id of no
\* existing node, and leaves the root the node it was.
C17_IdsUniqueAndStable ==
    /\ DOMAIN nodes = 0..(next_id - 1)
    /\ \A k \in DOMAIN nodes : nodes[k].id = k
    /\ root # NoneRef =>
          LET re == Rearranged
              after == re.nodes
              after_next_id == re.next_id
          IN  /\ root \in DOMAIN nodes
              /\ after_next_id >= next_id
              /\ DOMAIN after = 0..(after_next_id - 1)
              /\ \A k \in DOMAIN after : after[k].id = k
              /\ \A k \in DOMAIN nodes :
                    /\ after[k].id = nodes[k].id
                    /\ after[k].value = nodes[k].value
                    /\ after[k].node_type = nodes[k].node_type
    /\ (op = "rearrange_dag" /\ root # NoneRef) =>
          LET parsed == Parsed
          IN  /\ root = parsed.root
              /\ next_id >= parsed.next_id
              /\ \A k \in DOMAIN parsed.nodes : nodes[k].value = parsed.nodes[k].value

\* a second rearrange_dag has run, and the rearrangements have created nodes
\* after those of the parse
C17_Witness ==
    /\ op = "rearrange_dag"
    /\ ~raised
    /\ root # NoneRef
    /\ rearrangements = 2
    /\ next_id >= Parsed.next_id + 2
    /\ nodes[next_id - 1].id = next_id - 1

\* ------------------------------------------------------------------------
\* C12
\* ------------------------------------------------------------------------

\* the graph is the chain 0 -> 1 -> 2
IsChain == Range(dag_nodes) = {0, 1, 2} /\ dag_edges = {<<0, 1>>, <<1, 2>>}

\* C12: for the chain 0 -> 1 -> 2, compute_node_levels gives the levels 0, 1,
\* 2, compute_live_ranges gives the live ranges (0,0), (1,1), (2,2), and
\* allocate_registers returns register_count = 1.
C12_ChainExample ==
    (dag_op = "allocate_registers" /\ IsChain) =>
        /\ \A n \in {0, 1, 2} : node_labels[n] = n
        /\ \A n \in {0, 1, 2} : live_ranges[n] = <<n, n>>
        /\ register_count = 1

\* ------------------------------------------------------------------------
\* C15
\* ------------------------------------------------------------------------

\* neither of the two ranges ends before the other starts
RangesMeet(a, b) == a[2] >= b[1] /\ b[2] >= a[1]

\* the place of node in the insertion order of the graph
Place(node) == CHOOSE i \in 1..Len(dag_nodes) : dag_nodes[i] = node

\* allocate_registers processes u before v: by increasing start of the live
\* range, nodes of equal start in insertion order
ProcessedBefore(u, v) ==
    \/ live_ranges[u][1] < live_ranges[v][1]
    \/ live_ranges[u][1] = live_ranges[v][1] /\ Place(u) < Place(v)

\* the registers held, when node is processed, by the nodes whose range
\* overlaps that of node
HeldAgainst(node) ==
    {registers[u] : u \in {q \in Range(dag_nodes) :
        ProcessedBefore(q, node) /\ RangesMeet(live_ranges[q], live_ranges[node])}}

\* C15: in the mapping allocate_registers returns, no two distinct nodes whose
\* live ranges overlap have the same register index, and every node has the
\* smallest index not held by an earlier-processed node of overlapping range.
C15_OverlappingNodesDiffer ==
    dag_op = "allocate_registers" =>
        /\ DOMAIN registers = Range(dag_nodes)
        /\ \A u \in Range(dag_nodes), v \in Range(dag_nodes) :
              (u # v /\ RangesMeet(live_ranges[u], live_ranges[v]))
                  => registers[u] # registers[v]
        /\ \A node \in Range(dag_nodes) :
              /\ registers[node] \in Nat
              /\ registers[node] \notin HeldAgainst(node)
              /\ \A k \in 0..(registers[node] - 1) : k \in HeldAgainst(node)

\* allocate_registers has given two nodes of overlapping ranges different
\* registers, and a node the register of an earlier node whose range ended
\* before its own started
C15_Witness ==
    /\ dag_op = "allocate_registers"
    /\ \E u \in Range(dag_nodes), v \in Range(dag_nodes) :
          /\ u # v
          /\ RangesMeet(live_ranges[u], live_ranges[v])
          /\ live_ranges[u][2] = live_ranges[v][1]
          /\ registers[u] # registers[v]
    /\ \E u \in Range(dag_nodes), v \in Range(dag_nodes) :
          /\ live_ranges[u][2] < live_ranges[v][1]
          /\ registers[u] = registers[v]

\* ------------------------------------------------------------------------
\* C18
\* ------------------------------------------------------------------------

\* the greatest element of a non-empty set of numbers
Greatest(set) == CHOOSE m \in set : \A k \in set : k <= m

\* the length of the longest path that ends in node
RECURSIVE LongestPathTo(_)
LongestPathTo(node) ==
    IF \A e \in dag_edges : e[2] # node THEN 0
    ELSE 1 + Greatest({LongestPathTo(e[1]) : e \in {d \in dag_edges : d[2] = node}})

\* there is a path of at least one and at most k + 1 edges from u to v
RECURSIVE PathWithin(_, _, _)
PathWithin(u, v, k) ==
    \/ <<u, v>> \in dag_edges
    \/ k > 0 /\ \E e \in dag_edges : e[1] = u /\ PathWithin(e[2], v, k - 1)

\* the nodes reachable from node
ReachableFrom(node) ==
    {v \in Range(dag_nodes) : PathWithin(node, v, Cardinality(dag_edges))}

\* C18: compute_node_levels gives every node the length of the longest path
\* that reaches it (0 without predecessors, else 1 + the greatest level of
\* its direct predecessors); compute_live_ranges gives every node the range
\* (start, end) with start its level and end the greatest level of the nodes
\* reachable from it, or start if there is none; so start <= end.
C18_LevelsAndRanges ==
    /\ dag_op \in {"compute_node_levels", "compute_live_ranges", "allocate_registers"} =>
          /\ DOMAIN node_labels = Range(dag_nodes)
          /\ \A n \in Range(dag_nodes) :
                /\ node_labels[n] = LongestPathTo(n)
                /\ node_labels[n] =
                      (IF \A e \in dag_edges : e[2] # n THEN 0
                       ELSE 1 + Greatest({node_labels[e[1]] : e \in {d \in dag_edges : d[2] = n}}))
    /\ dag_op \in {"compute_live_ranges", "allocate_registers"} =>
          /\ DOMAIN live_ranges = Range(dag_nodes)
          /\ \A n \in Range(dag_nodes) :
                /\ live_ranges[n][1] = node_labels[n]
                /\ live_ranges[n][2] =
                      (IF ReachableFrom(n) = {} THEN live_ranges[n][1]
                       ELSE Greatest({node_labels[v] : v \in ReachableFrom(n)}))
                /\ live_ranges[n][1] <= live_ranges[n][2]

\* compute_live_ranges has run on a graph in which a node is reached by a
\* path of two edges and by a single edge, and a node lives from level 0 to
\* level 2
C18_Witness ==
    /\ dag_op = "compute_live_ranges"
    /\ \E n \in Range(dag_nodes) :
          /\ node_labels[n] = 2
          /\ \E e \in dag_edges : e[2] = n /\ node_labels[e[1]] = 0
    /\ \E m \in Range(dag_nodes) : live_ranges[m] = <<0, 2>>
    /\ \E m \in Range(dag_nodes) : live_ranges[m] = <<2, 2>>

\* ------------------------------------------------------------------------
\* C19
\* ------------------------------------------------------------------------

\* rearrange_dag, which leaves the node map after, swaps the operands of the
\* node id
SwapsAt(after, id) ==
    /\ Len(nodes[id].children) = 2
    /\ nodes[id].children[1] # nodes[id].children[2]
    /\ after[id].children = <<nodes[id].children[2], nodes[id].children[1]>>

\* rearrange_dag, which leaves the node map after, commits a regrouping at
\* the node id: its right operand becomes a node created by the call
RegroupsAt(after, id) ==
    /\ Len(after[id].children) = 2
    /\ after[id].children[2] >= next_id

ParsedLabel == AssignLabelsResult(Parsed.nodes, Parsed.root)

C19_WitnessSwap ==
    /\ op = "rearrange_dag"
    /\ ~raised
    /\ Labelled
    /\ rearrangements = 1
    /\ Len(nodes[root].children) = 2
    /\ nodes[root].children = <<Parsed.nodes[root].children[2], Parsed.nodes[root].children[1]>>
    /\ nodes[root].label = ParsedLabel

\* ------------------------------------------------------------------------
\* C5
\* ------------------------------------------------------------------------

\* colouring is a proper colouring of the interval-overlap graph of ranges:
\* two distinct nodes whose closed level intervals overlap differ in colour
ProperColouring(colouring, ranges) ==
    \A u \in DOMAIN ranges, v \in DOMAIN ranges :
        (u # v /\ Overlap(ranges[u], ranges[v])) => colouring[u] # colouring[v]

\* k colours suffice for the interval-overlap graph of ranges
Colourable(ranges, k) ==
    \E colouring \in [DOMAIN ranges -> 1..k] : ProperColouring(colouring, ranges)

\* the chromatic number of the interval-overlap graph of ranges, by brute
\* force
ChromaticNumber(ranges) ==
    CHOOSE k \in 0..Cardinality(DOMAIN ranges) :
        /\ Colourable(ranges, k)
        /\ \A j \in 0..(k - 1) : ~Colourable(ranges, j)

\* C5: the register_count allocate_registers returns is the chromatic number
\* of the interval-overlap graph of the live ranges it computed.
C5_RegisterCountIsChromatic ==
    dag_op = "allocate_registers" => register_count = ChromaticNumber(live_ranges)

====
